---------------------------- MODULE Spec2Model ----------------------------
(***************************************************************************)
(* The dispatcher generated by postcard-rpc's define_dispatch! macro       *)
(* (src/target_server/dispatch_macro.rs).                                  *)
(*                                                                         *)
(* The main path receives one frame at a time and runs dispatch() on it.   *)
(* dispatch() is an async fn: it is modelled as one action per stretch of  *)
(* code between two suspension points (.await), which is the granularity   *)
(* at which the cooperative executor interleaves the spawned tasks.        *)
(***************************************************************************)
EXTENDS Naturals, Sequences, FiniteSets

VARIABLES
    phase,      \* "build" | "running" | "rejected": macro expansion, then run time
    decl,       \* the endpoint list handed to define_dispatch!
    registry,   \* the match arms of dispatch(), in declaration order
    pc,         \* position of the main path
    callId,     \* number of dispatch() calls started so far
    hdr,        \* dispatch(): hdr argument
    body,       \* dispatch(): body argument
    ep,         \* dispatch(): index of the matched arm, 0 for the `other` arm
    req,        \* dispatch(): the decoded request
    resp,       \* dispatch(): `resp: Outcome<Response>`
    err,        \* error(): `error` argument
    lock,       \* owner of the SENDER_INNER mutex: <<who, call>>, who "free", MAIN or TASK
    wire,       \* frames written to ep_in, in order
    tasks,      \* live spawned handler tasks
    running,    \* calls whose inline (blocking/async) handler is executing
    calls,      \* history: per dispatch() call, its arguments and Outcome
    invoked,    \* history: every `$handler(...)` call expression evaluated
    sends       \* history: every Sender::reply / Sender::reply_keyed call completed

vars == <<phase, decl, registry, pc, callId, hdr, body, ep, req, resp, err,
          lock, wire, tasks, running, calls, invoked, sends>>

-----------------------------------------------------------------------------
(* Bounds *)

MaxCalls == 2      \* dispatch() calls per behaviour
TxCap    == 3      \* payload bytes that fit in tx_buf
PoolSize == 1      \* task pool of a spawned handler

-----------------------------------------------------------------------------
(* Keys, endpoints, payloads *)

MAIN == "main"
TASK == "task"

KeyA == <<170, 170>>
KeyB == <<187, 187>>
KeyE == <<238, 238>>
KeyUnknown == <<255, 255>>

ERROR_KEY == <<0, 0>>

Endpoint(rk, sk, ty, fl, h) ==
    [REQ_KEY |-> rk, RESP_KEY |-> sk, Request |-> ty, flavor |-> fl, handler |-> h]

DeltaEndpoint   == Endpoint(KeyA, <<170, 1>>, "u8",   "blocking", "delta_handler")
AlphaEndpoint   == Endpoint(KeyB, <<187, 1>>, "unit", "async",    "alpha_handler")
EpsilonEndpoint == Endpoint(KeyE, <<238, 1>>, "u8",   "spawn",    "epsilon_handler_task")
BetaEndpoint    == Endpoint(KeyA, <<170, 2>>, "u8",   "async",    "beta_handler")

Declarations ==
    { <<AlphaEndpoint, DeltaEndpoint, EpsilonEndpoint>>,
      <<DeltaEndpoint, BetaEndpoint>> }

InKeys   == {KeyA, KeyB, KeyE, KeyUnknown}
SeqNos   == {3, 7}
Bodies   == {<<>>, <<1>>}

SmallResp == <<7>>
BigResp   == [i \in 1..TxCap |-> 7]
Responses == {SmallResp, BigResp}

NoHdr == [key |-> <<>>, seq_no |-> 0]
NoReq == [ok |-> FALSE, val |-> 0]
NoOutcome == [tag |-> "None"]
NoErr == [tag |-> "None"]


Free == <<"free", 0>>

-----------------------------------------------------------------------------
(* Pure helpers *)

\* Key::to_bytes: the raw bytes of a key, one per position.
to_bytes(k) == [i \in 1..Len(k) |-> k[i]]

\* Mutant of Lookup: the key comparison is dropped, the first arm always matches.
Lookup_FirstArm(reg, k) == IF Len(reg) > 0 THEN 1 ELSE 0

\* The arm `match hdr.key` selects: the first arm whose REQ_KEY equals the key,
\* 0 for the `other` arm.
Lookup(reg, k) ==
    IF \E i \in 1..Len(reg) : reg[i].REQ_KEY = k
    THEN CHOOSE i \in 1..Len(reg) :
            /\ reg[i].REQ_KEY = k
            /\ \A j \in 1..(i - 1) : reg[j].REQ_KEY # k
    ELSE 0

\* Mutant of HasUnreachableArm: the lint is not denied, a shadowed arm compiles.
HasUnreachableArm_Allowed(d) == FALSE

\* An arm that an earlier arm with the same REQ_KEY makes unreachable.
HasUnreachableArm(d) ==
    \E i, j \in 1..Len(d) : i < j /\ d[i].REQ_KEY = d[j].REQ_KEY

\* postcard::from_bytes::<Request>(body): a u8 takes one byte, a unit struct
\* (such as AReq) takes none; trailing bytes are ignored.
Decode(ty, b) ==
    IF ty = "u8" /\ Len(b) >= 1 THEN [ok |-> TRUE, val |-> b[1]]
    ELSE IF ty = "unit" THEN [ok |-> TRUE, val |-> 0]
    ELSE [ok |-> FALSE, val |-> 0]

\* WireError values
DeserFailed   == [tag |-> "DeserFailed"]
SerFailed     == [tag |-> "SerFailed"]
FailedToSpawn == [tag |-> "FailedToSpawn"]
UnknownKey(bytes) == [tag |-> "UnknownKey", bytes |-> bytes]

\* Outcome values
Reply(t)     == [tag |-> "Reply", t |-> t]
SpawnSuccess == [tag |-> "SpawnSuccess"]
SpawnFailure == [tag |-> "SpawnFailure"]

\* postcard encoding of a response (a byte string: length prefix, then the bytes)
EncodeResp(t) == <<Len(t)>> \o t

\* postcard encoding of a WireError (variant index, then the variant's data)
EncodeErr(e) ==
    CASE e.tag = "DeserFailed"   -> <<2>>
      [] e.tag = "SerFailed"     -> <<3>>
      [] e.tag = "UnknownKey"    -> <<4>> \o e.bytes
      [] e.tag = "FailedToSpawn" -> <<5>>

Encode(op, v) == IF op = "reply" THEN EncodeResp(v) ELSE EncodeErr(v)

\* to_slice_keyed(.., tx_buf) fails when the payload does not fit
Fits(bytes) == Len(bytes) <= TxCap

-----------------------------------------------------------------------------
(* Sender (target_server::Sender): one mutex around tx_buf and ep_in *)

\* A Sender::reply / Sender::reply_keyed call by `who` on behalf of call c has the
\* mutex: it encodes into tx_buf and, if that fits, writes the frame to ep_in,
\* which succeeds (ok) or fails; the result reported is sent.
SenderWrite(who, c, op, seq_no, key, val, ok) ==
    LET bytes == Encode(op, val)
        sent  == Fits(bytes) /\ ok
    IN /\ lock = <<who, c>>
       /\ wire' = IF sent
                  THEN Append(wire, [seq_no |-> seq_no, key |-> key, payload |-> bytes])
                  ELSE wire
       /\ sends' = Append(sends, [call |-> c, by |-> who, op |-> op, seq_no |-> seq_no,
                                  key |-> key, val |-> val, ok |-> sent,
                                  w |-> IF sent THEN Len(wire) + 1 ELSE 0])
       /\ lock' = Free

\* Mutant of SenderLock: the mutex is taken without waiting for its owner.
SenderLock_NoWait(who, c) ==
    /\ lock' = <<who, c>>

\* self.inner.lock().await
SenderLock(who, c) ==
    /\ lock = Free
    /\ lock' = <<who, c>>

\* The result of the send that SenderWrite has just logged
LastSendOk == sends'[Len(sends')].ok

-----------------------------------------------------------------------------
(* Macro expansion: the match on hdr.key is built from the endpoint list *)

Init ==
    /\ phase = "build"
    /\ decl \in Declarations
    /\ registry = <<>>
    /\ pc = "idle"
    /\ callId = 0
    /\ hdr = NoHdr
    /\ body = <<>>
    /\ ep = 0
    /\ req = NoReq
    /\ resp = NoOutcome
    /\ err = NoErr
    /\ lock = Free
    /\ wire = <<>>
    /\ tasks = {}
    /\ running = {}
    /\ calls = <<>>
    /\ invoked = <<>>
    /\ sends = <<>>

runtime == <<pc, callId, hdr, body, ep, req, resp, err, lock, wire, tasks, running,
             calls, invoked, sends>>

\* #[deny(unreachable_patterns)]: a duplicated request key does not compile
BuildRejected ==
    /\ phase = "build"
    /\ HasUnreachableArm(decl)
    /\ phase' = "rejected"
    /\ UNCHANGED <<decl, registry, runtime>>

BuildDispatcher ==
    /\ phase = "build"
    /\ ~HasUnreachableArm(decl)
    /\ phase' = "running"
    /\ registry' = decl
    /\ UNCHANGED <<decl, runtime>>

-----------------------------------------------------------------------------
(* The main path: one frame at a time is handed to dispatch() *)

static == <<phase, decl, registry>>

Receive(k, s, b) ==
    /\ phase = "running"
    /\ pc = "idle"
    /\ callId < MaxCalls
    /\ callId' = callId + 1
    /\ hdr' = [key |-> k, seq_no |-> s]
    /\ body' = b
    /\ pc' = "dispatch"
    /\ calls' = Append(calls, [hdr |-> [key |-> k, seq_no |-> s], body |-> b,
                               outcome |-> "None", t |-> <<>>])
    /\ UNCHANGED <<static, ep, req, resp, err, lock, wire, tasks, running, invoked, sends>>

\* dispatch() returns: its arguments and locals are gone
Return ==
    /\ pc' = "idle"
    /\ hdr' = NoHdr
    /\ body' = <<>>
    /\ ep' = 0
    /\ req' = NoReq
    /\ resp' = NoOutcome
    /\ err' = NoErr

\* self.error(seq_no, error, sender) is entered
CallError(e) ==
    /\ pc' = "error"
    /\ err' = e

\* Mutant of SeqNoOf: frames are numbered by a constant instead of the header.
SeqNoOf_Const(h) == 0

\* the seq_no dispatch() passes to sender.reply and to self.error
SeqNoOf(h) == h.seq_no

\* Mutant of OtherArmError: the `other` arm reports the wrong WireError variant.
OtherArmError_Deser(other) == DeserFailed

\* `other => WireError::UnknownKey(other.to_bytes())`
OtherArmError(other) == UnknownKey(to_bytes(other))

\* Mutant of MatchOther: the error report is handed to a background task and
\* dispatch returns without awaiting it.
MatchOther_Detached ==
    /\ pc = "dispatch"
    /\ Lookup(registry, hdr.key) = 0
    /\ tasks' = tasks \cup {[call |-> callId, seq_no |-> hdr.seq_no, key |-> ERROR_KEY,
                             handler |-> "error", st |-> "run"]}
    /\ Return
    /\ UNCHANGED <<static, callId, lock, wire, running, calls, invoked, sends>>

\* match hdr.key { .. other => { error(UnknownKey); return } }
MatchOther ==
    /\ pc = "dispatch"
    /\ Lookup(registry, hdr.key) = 0
    /\ CallError(OtherArmError(hdr.key))
    /\ UNCHANGED <<static, callId, hdr, body, ep, req, resp, lock, wire, tasks, running,
                   calls, invoked, sends>>

\* Mutant of DecodeFailed: the else branch returns without reporting the error.
DecodeFailed_Silent ==
    /\ pc = "dispatch"
    /\ Lookup(registry, hdr.key) # 0
    /\ ~Decode(registry[Lookup(registry, hdr.key)].Request, body).ok
    /\ Return
    /\ UNCHANGED <<static, callId, lock, wire, tasks, running, calls, invoked, sends>>

\* Mutant of DecodeFailed: the result of from_bytes is not checked and the arm
\* goes on to its handler with a defaulted request.
DecodeFailed_Unchecked ==
    /\ pc = "dispatch"
    /\ Lookup(registry, hdr.key) # 0
    /\ ~Decode(registry[Lookup(registry, hdr.key)].Request, body).ok
    /\ ep' = Lookup(registry, hdr.key)
    /\ pc' = "arm"
    /\ UNCHANGED <<static, callId, hdr, body, req, resp, err, lock, wire, tasks, running,
                   calls, invoked, sends>>

\* REQ_KEY => { let Ok(req) = from_bytes(body) else { error(DeserFailed); return } }
DecodeFailed ==
    /\ pc = "dispatch"
    /\ Lookup(registry, hdr.key) # 0
    /\ ~Decode(registry[Lookup(registry, hdr.key)].Request, body).ok
    /\ ep' = Lookup(registry, hdr.key)
    /\ CallError(DeserFailed)
    /\ UNCHANGED <<static, callId, hdr, body, req, resp, lock, wire, tasks, running,
                   calls, invoked, sends>>

\* REQ_KEY => { let Ok(req) = from_bytes(body) ... }: the arm is entered with req
DecodeOk ==
    /\ pc = "dispatch"
    /\ Lookup(registry, hdr.key) # 0
    /\ Decode(registry[Lookup(registry, hdr.key)].Request, body).ok
    /\ ep' = Lookup(registry, hdr.key)
    /\ req' = Decode(registry[Lookup(registry, hdr.key)].Request, body)
    /\ pc' = "arm"
    /\ UNCHANGED <<static, callId, hdr, body, resp, err, lock, wire, tasks, running,
                   calls, invoked, sends>>

\* Mutant of SerFailedError: a failed reply is reported as a decode failure.
SerFailedError_Deser == DeserFailed

\* the error dispatch() reports when sender.reply fails
SerFailedError == SerFailed

\* the `$handler(..)` call expression of an arm is evaluated
Invoke(i) ==
    Append(invoked, [call |-> callId, key |-> registry[i].REQ_KEY,
                     handler |-> registry[i].handler, flavor |-> registry[i].flavor])

SetOutcome(o, t) == [calls EXCEPT ![callId].outcome = o, ![callId].t = t]

\* @arm blocking: Outcome::Reply($handler(header.clone(), req))
ArmBlocking(t) ==
    /\ pc = "arm"
    /\ registry[ep].flavor = "blocking"
    /\ invoked' = Invoke(ep)
    /\ resp' = Reply(t)
    /\ calls' = SetOutcome("Reply", t)
    /\ pc' = "resolve"
    /\ UNCHANGED <<static, callId, hdr, body, ep, req, err, lock, wire, tasks, running, sends>>

\* Mutant of ArmAsyncCall: the handler future is started but not awaited: the
\* dispatch call returns while the handler is still executing.
ArmAsyncCall_Detached ==
    /\ pc = "arm"
    /\ registry[ep].flavor = "async"
    /\ invoked' = Invoke(ep)
    /\ running' = running \cup {callId}
    /\ Return
    /\ UNCHANGED <<static, callId, lock, wire, tasks, calls, sends>>

\* @arm async: $handler(header.clone(), req) is called and awaited
ArmAsyncCall ==
    /\ pc = "arm"
    /\ registry[ep].flavor = "async"
    /\ invoked' = Invoke(ep)
    /\ running' = running \cup {callId}
    /\ pc' = "handler"
    /\ UNCHANGED <<static, callId, hdr, body, ep, req, resp, err, lock, wire, tasks,
                   calls, sends>>

\* @arm async: the awaited handler completes: Outcome::Reply(..)
ArmAsyncReturn(t) ==
    /\ pc = "handler"
    /\ running' = running \ {callId}
    /\ resp' = Reply(t)
    /\ calls' = SetOutcome("Reply", t)
    /\ pc' = "resolve"
    /\ UNCHANGED <<static, callId, hdr, body, ep, req, err, lock, wire, tasks, invoked, sends>>

\* the pool of the task `h` has a free slot
PoolHasRoom(h) == Cardinality({t \in tasks : t.handler = h}) < PoolSize

\* the task spawner.spawn starts: it owns the header and a clone of the sender
NewTask(i) ==
    [call |-> callId, seq_no |-> hdr.seq_no, key |-> registry[i].RESP_KEY,
     handler |-> registry[i].handler, st |-> "run"]

\* @arm spawn: spawner.spawn($handler(header.clone(), req, sender.clone())).is_ok()
ArmSpawnOk ==
    /\ pc = "arm"
    /\ registry[ep].flavor = "spawn"
    /\ PoolHasRoom(registry[ep].handler)
    /\ invoked' = Invoke(ep)
    /\ tasks' = tasks \cup {NewTask(ep)}
    /\ resp' = SpawnSuccess
    /\ calls' = SetOutcome("SpawnSuccess", <<>>)
    /\ pc' = "resolve"
    /\ UNCHANGED <<static, callId, hdr, body, ep, req, err, lock, wire, running, sends>>

\* Mutant of ArmSpawnBusy: the request is kept queued for a later slot although
\* the failure is reported.
ArmSpawnBusy_Queued ==
    /\ pc = "arm"
    /\ registry[ep].flavor = "spawn"
    /\ ~PoolHasRoom(registry[ep].handler)
    /\ invoked' = Invoke(ep)
    /\ tasks' = tasks \cup {NewTask(ep)}
    /\ resp' = SpawnFailure
    /\ calls' = SetOutcome("SpawnFailure", <<>>)
    /\ pc' = "resolve"
    /\ UNCHANGED <<static, callId, hdr, body, ep, req, err, lock, wire, running, sends>>

\* @arm spawn: spawner.spawn(..) reports an error: the pool is exhausted
ArmSpawnBusy ==
    /\ pc = "arm"
    /\ registry[ep].flavor = "spawn"
    /\ ~PoolHasRoom(registry[ep].handler)
    /\ invoked' = Invoke(ep)
    /\ resp' = SpawnFailure
    /\ calls' = SetOutcome("SpawnFailure", <<>>)
    /\ pc' = "resolve"
    /\ UNCHANGED <<static, callId, hdr, body, ep, req, err, lock, wire, tasks, running, sends>>

\* Outcome::Reply(t) => sender.reply::<E>(hdr.seq_no, &t).await: the mutex is taken
ReplyLock ==
    /\ pc = "resolve"
    /\ resp.tag = "Reply"
    /\ SenderLock(MAIN, callId)
    /\ pc' = "reply_write"
    /\ UNCHANGED <<static, callId, hdr, body, ep, req, resp, err, wire, tasks, running,
                   calls, invoked, sends>>

\* Mutant of ReplyWrite: the result of sender.reply is not tested and error() is
\* called after every reply.
ReplyWrite_AlwaysError(ok) ==
    /\ pc = "reply_write"
    /\ SenderWrite(MAIN, callId, "reply", SeqNoOf(hdr), registry[ep].RESP_KEY, resp.t, ok)
    /\ CallError(SerFailedError) /\ UNCHANGED <<hdr, body, ep, req, resp>>
    /\ UNCHANGED <<static, callId, tasks, running, calls, invoked>>

\* Mutant of ReplyWrite: a reply that failed is sent again instead of reported.
ReplyWrite_Retry(ok) ==
    /\ pc = "reply_write"
    /\ SenderWrite(MAIN, callId, "reply", SeqNoOf(hdr), registry[ep].RESP_KEY, resp.t, ok)
    /\ IF LastSendOk
       THEN Return
       ELSE pc' = "resolve" /\ UNCHANGED <<hdr, body, ep, req, resp, err>>
    /\ UNCHANGED <<static, callId, tasks, running, calls, invoked>>

\* Mutant of ReplyWrite: the test is inverted (is_ok for is_err), so a reply that
\* was sent is followed by a SerFailed error and a failed one by nothing.
ReplyWrite_Inverted(ok) ==
    /\ pc = "reply_write"
    /\ SenderWrite(MAIN, callId, "reply", SeqNoOf(hdr), registry[ep].RESP_KEY, resp.t, ok)
    /\ IF ~LastSendOk
       THEN Return
       ELSE CallError(SerFailedError) /\ UNCHANGED <<hdr, body, ep, req, resp>>
    /\ UNCHANGED <<static, callId, tasks, running, calls, invoked>>

\* if sender.reply(..).await.is_err() { error(SerFailed); return }
ReplyWrite(ok) ==
    /\ pc = "reply_write"
    /\ SenderWrite(MAIN, callId, "reply", SeqNoOf(hdr), registry[ep].RESP_KEY, resp.t, ok)
    /\ IF LastSendOk
       THEN Return
       ELSE CallError(SerFailedError) /\ UNCHANGED <<hdr, body, ep, req, resp>>
    /\ UNCHANGED <<static, callId, tasks, running, calls, invoked>>

\* Mutant of ResolveSpawnSuccess: the arm reports an error although the task runs.
ResolveSpawnSuccess_Error ==
    /\ pc = "resolve"
    /\ resp.tag = "SpawnSuccess"
    /\ CallError(FailedToSpawn)
    /\ UNCHANGED <<static, callId, hdr, body, ep, req, resp, lock, wire, tasks, running,
                   calls, invoked, sends>>

\* Mutant of ResolveSpawnSuccess: dispatch waits for the spawned task to finish.
ResolveSpawnSuccess_Join ==
    /\ pc = "resolve"
    /\ resp.tag = "SpawnSuccess"
    /\ \A t \in tasks : t.call # callId
    /\ Return
    /\ UNCHANGED <<static, callId, lock, wire, tasks, running, calls, invoked, sends>>

\* Outcome::SpawnSuccess => {}
ResolveSpawnSuccess ==
    /\ pc = "resolve"
    /\ resp.tag = "SpawnSuccess"
    /\ Return
    /\ UNCHANGED <<static, callId, lock, wire, tasks, running, calls, invoked, sends>>

\* Mutant of ResolveSpawnFailure: the failure is dropped like a success.
ResolveSpawnFailure_Silent ==
    /\ pc = "resolve"
    /\ resp.tag = "SpawnFailure"
    /\ Return
    /\ UNCHANGED <<static, callId, lock, wire, tasks, running, calls, invoked, sends>>

\* Outcome::SpawnFailure => error(FailedToSpawn)
ResolveSpawnFailure ==
    /\ pc = "resolve"
    /\ resp.tag = "SpawnFailure"
    /\ CallError(FailedToSpawn)
    /\ UNCHANGED <<static, callId, hdr, body, ep, req, resp, lock, wire, tasks, running,
                   calls, invoked, sends>>

\* error(): sender.reply_keyed(seq_no, ERROR_KEY, &error).await: the mutex is taken
ErrorLock ==
    /\ pc = "error"
    /\ SenderLock(MAIN, callId)
    /\ pc' = "error_write"
    /\ UNCHANGED <<static, callId, hdr, body, ep, req, resp, err, wire, tasks, running,
                   calls, invoked, sends>>

\* Mutant of ErrorWrite: a failed error send is tried again.
ErrorWrite_Retry(ok) ==
    /\ pc = "error_write"
    /\ SenderWrite(MAIN, callId, "reply_keyed", SeqNoOf(hdr), ERROR_KEY, err, ok)
    /\ IF LastSendOk
       THEN Return
       ELSE pc' = "error" /\ UNCHANGED <<hdr, body, ep, req, resp, err>>
    /\ UNCHANGED <<static, callId, tasks, running, calls, invoked>>

\* error(): let _ = sender.reply_keyed(..).await; then dispatch() returns
ErrorWrite(ok) ==
    /\ pc = "error_write"
    /\ SenderWrite(MAIN, callId, "reply_keyed", SeqNoOf(hdr), ERROR_KEY, err, ok)
    /\ Return
    /\ UNCHANGED <<static, callId, tasks, running, calls, invoked>>

-----------------------------------------------------------------------------
(* Spawned handler tasks: each may send one reply through its sender clone *)

TaskReplyLock(t) ==
    /\ t \in tasks
    /\ t.st = "run"
    /\ SenderLock(TASK, t.call)
    /\ tasks' = (tasks \ {t}) \cup {[t EXCEPT !.st = "locked"]}
    /\ UNCHANGED <<static, pc, callId, hdr, body, ep, req, resp, err, wire, running,
                   calls, invoked, sends>>

TaskReplyWrite(t, ok) ==
    /\ t \in tasks
    /\ t.st = "locked"
    /\ SenderWrite(TASK, t.call, "reply", t.seq_no, t.key, SmallResp, ok)
    /\ tasks' = tasks \ {t}
    /\ UNCHANGED <<static, pc, callId, hdr, body, ep, req, resp, err, running,
                   calls, invoked>>

TaskExit(t) ==
    /\ t \in tasks
    /\ t.st = "run"
    /\ tasks' = tasks \ {t}
    /\ UNCHANGED <<static, pc, callId, hdr, body, ep, req, resp, err, lock, wire, running,
                   calls, invoked, sends>>

-----------------------------------------------------------------------------

Next ==
    \/ BuildRejected
    \/ BuildDispatcher
    \/ \E k \in InKeys, s \in SeqNos, b \in Bodies : Receive(k, s, b)
    \/ MatchOther
    \/ DecodeFailed
    \/ DecodeOk
    \/ \E t \in Responses : ArmBlocking(t)
    \/ ArmAsyncCall
    \/ \E t \in Responses : ArmAsyncReturn(t)
    \/ ArmSpawnOk
    \/ ArmSpawnBusy
    \/ ReplyLock
    \/ \E ok \in BOOLEAN : ReplyWrite(ok)
    \/ ResolveSpawnSuccess
    \/ ResolveSpawnFailure
    \/ ErrorLock
    \/ \E ok \in BOOLEAN : ErrorWrite(ok)
    \/ \E t \in tasks : TaskReplyLock(t)
    \/ \E t \in tasks, ok \in BOOLEAN : TaskReplyWrite(t, ok)
    \/ \E t \in tasks : TaskExit(t)

Spec == Init /\ [][Next]_vars

\* the steps of dispatch() and error() that the main path takes by itself
MainStep ==
    \/ MatchOther
    \/ DecodeFailed
    \/ DecodeOk
    \/ \E t \in Responses : ArmBlocking(t)
    \/ ArmAsyncCall
    \/ ArmSpawnOk
    \/ ArmSpawnBusy
    \/ ReplyLock
    \/ \E ok \in BOOLEAN : ReplyWrite(ok)
    \/ ResolveSpawnSuccess
    \/ ResolveSpawnFailure
    \/ ErrorLock
    \/ \E ok \in BOOLEAN : ErrorWrite(ok)

\* The executor keeps polling the main path: a step of it that stays possible is
\* taken. Nothing is assumed of the spawned tasks or of an awaited handler.
FairMain == Spec /\ WF_vars(MainStep)

\* Moreover an awaited handler terminates and a send in progress completes.
FairAll ==
    /\ Spec
    /\ WF_vars(MainStep)
    /\ WF_vars(\E t \in Responses : ArmAsyncReturn(t))
    /\ WF_vars(\E t \in tasks, ok \in BOOLEAN : TaskReplyWrite(t, ok))

-----------------------------------------------------------------------------
(* Reading the histories *)

\* dispatch() call c has returned
Completed(c) == c \in 1..callId /\ (c < callId \/ pc = "idle")

\* the sends the dispatcher itself made during call c, in order
MainSends(c) == SelectSeq(sends, LAMBDA a : a.call = c /\ a.by = MAIN)

\* the sends the task spawned by call c made
TaskSends(c) == SelectSeq(sends, LAMBDA a : a.call = c /\ a.by = TASK)

\* the handler call expressions evaluated during call c
InvokedBy(c) == SelectSeq(invoked, LAMBDA v : v.call = c)

\* the endpoints of the registry bound to key k
Bound(k) == {i \in 1..Len(registry) : registry[i].REQ_KEY = k}

\* the body of call c decodes as the request type of an endpoint bound to its key
Decodable(c) ==
    \E i \in Bound(calls[c].hdr.key) : Decode(registry[i].Request, calls[c].body).ok

\* a is an error frame carrying e under the reserved key, correlated to call c
IsErrorSend(a, c, e) ==
    /\ a.op = "reply_keyed"
    /\ a.key = ERROR_KEY
    /\ a.val = e
    /\ a.seq_no = calls[c].hdr.seq_no

\* a send that succeeded put exactly its frame on the wire
OnWire(a) ==
    a.ok => /\ a.w \in 1..Len(wire)
            /\ wire[a.w] = [seq_no |-> a.seq_no, key |-> a.key,
                            payload |-> Encode(a.op, a.val)]

\* no task was started for call c
NeverSpawned(c) ==
    /\ \A t \in tasks : t.call # c
    /\ TaskSends(c) = <<>>

-----------------------------------------------------------------------------
(* Claims *)

\* C1: a header whose key matches no registered endpoint makes dispatch send
\* exactly once: an error frame under ERROR_KEY whose payload is UnknownKey with
\* the raw bytes of the key and whose seq_no is the header's; no handler is called
\* or spawned and no reply is sent.
C1_UnknownKey ==
    \A c \in 1..callId :
        Bound(calls[c].hdr.key) = {} =>
            /\ InvokedBy(c) = <<>>
            /\ NeverSpawned(c)
            /\ \A i \in 1..Len(MainSends(c)) : MainSends(c)[i].op # "reply"
            /\ Completed(c) =>
                 /\ Len(MainSends(c)) = 1
                 /\ IsErrorSend(MainSends(c)[1], c,
                                [tag |-> "UnknownKey", bytes |-> calls[c].hdr.key])
                 /\ OnWire(MainSends(c)[1])

C1_Witness ==
    \E c \in 1..callId :
        /\ Completed(c)
        /\ calls[c].hdr = [key |-> KeyUnknown, seq_no |-> 3]
        /\ Len(MainSends(c)) = 1
        /\ MainSends(c)[1].ok
        /\ wire[MainSends(c)[1].w].payload = <<4, 255, 255>>

\* C2: a body that fails to decode as the request type of the endpoint registered
\* for the key gives exactly one DeserFailed error frame with the header's seq_no;
\* the handler is not called, no task is submitted and no reply is sent.
C2_DeserFailed ==
    \A c \in 1..callId :
        (Bound(calls[c].hdr.key) # {} /\ ~Decodable(c)) =>
            /\ InvokedBy(c) = <<>>
            /\ NeverSpawned(c)
            /\ \A i \in 1..Len(MainSends(c)) : MainSends(c)[i].op # "reply"
            /\ Completed(c) =>
                 /\ Len(MainSends(c)) = 1
                 /\ IsErrorSend(MainSends(c)[1], c, DeserFailed)
                 /\ OnWire(MainSends(c)[1])

C2_Witness ==
    \E c \in 1..callId :
        /\ Completed(c)
        /\ calls[c].hdr.key = KeyE
        /\ calls[c].body = <<>>
        /\ Len(MainSends(c)) = 1
        /\ MainSends(c)[1].ok
        /\ MainSends(c)[1].val = DeserFailed

\* C3: one dispatch of a correctly encoded request for a registered key k calls
\* (or submits) the handler bound to k exactly once and no other handler.
C3_OneHandler ==
    \A c \in 1..callId :
        (Bound(calls[c].hdr.key) # {} /\ Decodable(c)) =>
            /\ Len(InvokedBy(c)) <= 1
            /\ \A n \in 1..Len(InvokedBy(c)) :
                 /\ InvokedBy(c)[n].key = calls[c].hdr.key
                 /\ \A i \in Bound(calls[c].hdr.key) :
                      InvokedBy(c)[n].handler = registry[i].handler
            /\ Completed(c) => Len(InvokedBy(c)) = 1

C3_Witness ==
    \E c, d \in 1..callId :
        /\ Completed(c) /\ Completed(d)
        /\ calls[c].hdr.key = KeyA /\ calls[d].hdr.key = KeyB
        /\ Len(InvokedBy(c)) = 1 /\ InvokedBy(c)[1].handler = "delta_handler"
        /\ Len(InvokedBy(d)) = 1 /\ InvokedBy(d)[1].handler = "alpha_handler"

\* the sends among MainSends(c) that are error frames
ErrorSends(c) == SelectSeq(MainSends(c), LAMBDA a : a.op = "reply_keyed")

\* C4: when the handler of a blocking or async endpoint returns R and the reply
\* encodes and is sent, dispatch produces exactly one frame: the reply, with the
\* request's seq_no, the endpoint's RESP_KEY and the encoding of R, and no error.
C4_Reply ==
    \A c \in 1..callId :
        (/\ Completed(c)
         /\ calls[c].outcome = "Reply"
         /\ Fits(EncodeResp(calls[c].t))
         /\ Len(MainSends(c)) >= 1
         /\ MainSends(c)[1].ok) =>
            /\ Len(MainSends(c)) = 1
            /\ LET a == MainSends(c)[1]
               IN /\ a.op = "reply"
                  /\ a.w \in 1..Len(wire)
                  /\ wire[a.w].seq_no = calls[c].hdr.seq_no
                  /\ \A i \in Bound(calls[c].hdr.key) : wire[a.w].key = registry[i].RESP_KEY
                  /\ wire[a.w].payload = EncodeResp(calls[c].t)
            /\ NeverSpawned(c)

C4_Witness ==
    \E c \in 1..callId :
        /\ Completed(c)
        /\ calls[c].hdr = [key |-> KeyA, seq_no |-> 7]
        /\ calls[c].outcome = "Reply"
        /\ calls[c].t = SmallResp
        /\ Len(wire) = 1
        /\ wire[1] = [seq_no |-> 7, key |-> <<170, 1>>, payload |-> <<1, 7>>]
        /\ Len(MainSends(c)) = 1

\* C5: when the handler's response does not encode, exactly one SerFailed error
\* frame with the request's seq_no is produced and no reply frame is sent.
C5_SerFailed ==
    \A c \in 1..callId :
        (calls[c].outcome = "Reply" /\ ~Fits(EncodeResp(calls[c].t))) =>
            /\ \A i \in 1..Len(MainSends(c)) :
                 MainSends(c)[i].op = "reply" => ~MainSends(c)[i].ok
            /\ \A i \in 1..Len(wire) :
                 ~(/\ wire[i].seq_no = calls[c].hdr.seq_no
                   /\ wire[i].payload = EncodeResp(calls[c].t))
            /\ Len(ErrorSends(c)) <= 1
            /\ Completed(c) =>
                 /\ Len(ErrorSends(c)) = 1
                 /\ IsErrorSend(ErrorSends(c)[1], c, SerFailed)
                 /\ OnWire(ErrorSends(c)[1])

C5_Witness ==
    \E c \in 1..callId :
        /\ Completed(c)
        /\ calls[c].outcome = "Reply"
        /\ calls[c].t = BigResp
        /\ Len(MainSends(c)) = 2
        /\ MainSends(c)[2].ok
        /\ wire[MainSends(c)[2].w].payload = <<3>>

\* C6: when submitting the handler task of a spawned endpoint fails, dispatch
\* yields exactly one FailedToSpawn error frame with the request's seq_no and the
\* handler never runs for that request: no task is queued for it.
C6_FailedToSpawn ==
    \A c \in 1..callId :
        calls[c].outcome = "SpawnFailure" =>
            /\ NeverSpawned(c)
            /\ c \notin running
            /\ Len(MainSends(c)) <= 1
            /\ Completed(c) =>
                 /\ Len(MainSends(c)) = 1
                 /\ IsErrorSend(MainSends(c)[1], c, FailedToSpawn)
                 /\ OnWire(MainSends(c)[1])

C6_Witness ==
    \E c \in 1..callId :
        /\ Completed(c)
        /\ calls[c].outcome = "SpawnFailure"
        /\ Len(MainSends(c)) = 1
        /\ MainSends(c)[1].ok
        /\ \E t \in tasks : t.call < c

\* C7: when submission succeeds the dispatcher sends nothing for the request:
\* every send made for it is made by the spawned task, with the task's own copy
\* of the header.
C7_SpawnSuccess ==
    \A c \in 1..callId :
        calls[c].outcome = "SpawnSuccess" =>
            /\ MainSends(c) = <<>>
            /\ \A i \in 1..Len(sends) :
                 sends[i].call = c =>
                     /\ sends[i].by = TASK
                     /\ sends[i].seq_no = calls[c].hdr.seq_no
            /\ (pc = "error" \/ pc = "error_write" \/ pc = "reply_write") => callId # c

C7_Witness ==
    \E c \in 1..callId :
        /\ Completed(c)
        /\ calls[c].outcome = "SpawnSuccess"
        /\ Len(TaskSends(c)) = 1
        /\ TaskSends(c)[1].ok
        /\ MainSends(c) = <<>>

\* the last handler call expression evaluated was that of an inline handler
InlineInvoked(log) ==
    /\ Len(log) > 0
    /\ log[Len(log)].flavor \in {"blocking", "async"}

\* C8: inline handlers run one at a time and in arrival order: a blocking or async
\* handler is only ever called while no inline handler is executing, whatever the
\* spawned tasks do, so the handler of request A has completed when that of a
\* later request B begins.
C8_InlineSequential ==
    [][ /\ Cardinality(running') <= 1
        /\ (Len(invoked') > Len(invoked) /\ InlineInvoked(invoked')) =>
              /\ running = {}
              /\ \A n \in 1..Len(invoked) : invoked[n].call < invoked'[Len(invoked')].call
      ]_vars

C8_WitnessSpawnedTask ==
    /\ running = {callId}
    /\ callId = 2
    /\ \E t \in tasks : t.st = "locked"
    /\ Len(invoked) = 2
    /\ invoked[1].flavor = "spawn"

C8_Witness ==
    /\ running = {2}
    /\ Len(invoked) = 2
    /\ invoked[1].flavor = "async"
    /\ invoked[2].flavor = "async"

\* call c ran into a per-request error: unknown key, decode failure, encode
\* failure or spawn failure
PerRequestError(c) ==
    \/ Bound(calls[c].hdr.key) = {}
    \/ ~Decodable(c)
    \/ calls[c].outcome = "Reply" /\ ~Fits(EncodeResp(calls[c].t))
    \/ calls[c].outcome = "SpawnFailure"

\* C9: a per-request error is not fatal: the call produces exactly one error
\* frame correlated to the request and returns, and it leaves behind nothing a
\* later dispatch reads: the registry is the declared one, the main path holds
\* neither the sender's mutex nor any argument or local of the call, no inline
\* handler is executing and no task exists for the failed request.
C9_NonFatal ==
    /\ \A c \in 1..callId :
         PerRequestError(c) =>
            /\ \A t \in tasks : t.call # c
            /\ Len(ErrorSends(c)) <= 1
            /\ Completed(c) =>
                 /\ Len(ErrorSends(c)) = 1
                 /\ ErrorSends(c)[1].key = ERROR_KEY
                 /\ ErrorSends(c)[1].seq_no = calls[c].hdr.seq_no
                 /\ ErrorSends(c)[1].val.tag \in
                        {"UnknownKey", "DeserFailed", "SerFailed", "FailedToSpawn"}
                 /\ ErrorSends(c)[Len(ErrorSends(c))] = MainSends(c)[Len(MainSends(c))]
    /\ (pc = "idle" /\ phase = "running") =>
            /\ registry = decl
            /\ lock[1] # MAIN
            /\ running = {}
            /\ <<hdr, body, ep, req, resp, err>> = <<NoHdr, <<>>, 0, NoReq, NoOutcome, NoErr>>
    /\ pc \in {"idle", "dispatch", "arm", "handler", "resolve", "reply_write",
               "error", "error_write"}

C9_Witness ==
    /\ callId = 2
    /\ Completed(1) /\ Completed(2)
    /\ PerRequestError(1)
    /\ calls[1].outcome = "Reply"
    /\ ~PerRequestError(2)
    /\ calls[2].outcome = "Reply"
    /\ Len(MainSends(2)) = 1
    /\ MainSends(2)[1].ok

\* C10: a failed send of an error frame is absorbed: error() makes that one send
\* attempt and no other, nothing more is sent for the request by anyone, and
\* dispatch has returned by the end of the attempt.
C10_ErrorSendAbsorbed ==
    \A c \in 1..callId :
        \A i \in 1..Len(sends) :
            (sends[i].call = c /\ sends[i].op = "reply_keyed" /\ ~sends[i].ok) =>
                /\ Completed(c)
                /\ \A j \in (i + 1)..Len(sends) : sends[j].call # c
                /\ Len(ErrorSends(c)) = 1
                /\ \A j \in 1..Len(sends) : sends[j].call = c => ~sends[j].ok

C10_Witness ==
    /\ callId = 2
    /\ Completed(2)
    /\ Len(sends) = 2
    /\ sends[1].call = 1 /\ sends[1].op = "reply_keyed" /\ ~sends[1].ok
    /\ sends[2].call = 2 /\ sends[2].ok
    /\ Len(wire) = 1

\* two endpoints of the list d share a routing key
SharesKey(d) ==
    \E i, j \in 1..Len(d) : i # j /\ d[i].REQ_KEY = d[j].REQ_KEY

\* C11: no frame is dispatched against a registry in which two endpoints share a
\* routing key: such a declaration is rejected when the dispatcher is built,
\* before any frame, and wherever frames are dispatched each key selects at most
\* one endpoint.
C11_UniqueKeys ==
    /\ SharesKey(decl) =>
          /\ phase # "running"
          /\ callId = 0 /\ pc = "idle" /\ calls = <<>> /\ sends = <<>> /\ invoked = <<>>
    /\ (phase = "running" \/ callId > 0) =>
          /\ ~SharesKey(registry)
          /\ \A k \in InKeys : Cardinality(Bound(k)) <= 1

C11_Witness ==
    /\ phase = "rejected"
    /\ SharesKey(decl)
    /\ callId = 0
    /\ registry = <<>>

\* C13: every frame the dispatcher sends during a dispatch call carries the
\* seq_no of the header passed to that call, over any sequence of calls.
C13_Correlation ==
    \A i \in 1..Len(sends) :
        sends[i].by = MAIN =>
            /\ sends[i].call \in 1..callId
            /\ sends[i].seq_no = calls[sends[i].call].hdr.seq_no
            /\ sends[i].ok => wire[sends[i].w].seq_no = calls[sends[i].call].hdr.seq_no
            /\ \A j \in (i + 1)..Len(sends) :
                 sends[j].by = MAIN => sends[i].call <= sends[j].call

C13_Witness ==
    /\ callId = 2
    /\ Completed(2)
    /\ calls[1].hdr.seq_no = 7 /\ calls[2].hdr.seq_no = 3
    /\ Len(MainSends(1)) = 1 /\ MainSends(1)[1].ok /\ MainSends(1)[1].op = "reply"
    /\ Len(MainSends(2)) = 1 /\ MainSends(2)[1].ok /\ MainSends(2)[1].op = "reply_keyed"
    /\ wire[1].seq_no = 7 /\ wire[2].seq_no = 3

\* the parties that are inside a send: they have the mutex and have not yet
\* finished writing their frame
Writers ==
    (IF pc \in {"reply_write", "error_write"} THEN {<<MAIN, callId>>} ELSE {})
    \cup {<<TASK, t.call>> : t \in {u \in tasks : u.st = "locked"}}

\* C14: sends through the shared Sender exclude each other: of the main path and
\* the spawned tasks, at most one is inside a send at any time, and it owns the
\* mutex, so frames are not interleaved on the wire.
C14_MutualExclusion ==
    /\ Cardinality(Writers) <= 1
    /\ \A x \in Writers : lock = x
    /\ lock # Free => lock \in Writers

C14_Witness ==
    /\ pc = "error"
    /\ callId = 2
    /\ lock = <<TASK, 1>>
    /\ Writers = {<<TASK, 1>>}

\* the number of sends of the sequence q that succeeded
OkCount(q) == Len(SelectSeq(q, LAMBDA a : a.ok))

\* C15: within one dispatch call the dispatcher makes at most two send attempts,
\* a reply and, only after that reply has failed, an error; at most one of them
\* succeeds: never a sent reply and an error frame, never two error frames.
C15_AtMostTwoSends ==
    \A c \in 1..callId :
        LET q == MainSends(c)
        IN /\ Len(q) <= 2
           /\ Len(ErrorSends(c)) <= 1
           /\ OkCount(q) <= 1
           /\ Len(q) = 2 =>
                 /\ q[1].op = "reply" /\ ~q[1].ok
                 /\ q[2].op = "reply_keyed"
           /\ \A i \in 1..Len(q) : (q[i].op = "reply" /\ q[i].ok) => Len(q) = 1

C15_Witness ==
    \E c \in 1..callId :
        /\ Completed(c)
        /\ Len(MainSends(c)) = 2
        /\ ~MainSends(c)[1].ok
        /\ MainSends(c)[2].ok
        /\ \E d \in 1..callId : Len(MainSends(d)) = 1 /\ MainSends(d)[1].op = "reply"

\* C16: on a Reply outcome a SerFailed error frame is attempted if and only if
\* sender.reply reported failure, be it the encoding or the transport that
\* failed; the reply is attempted once and never again.
C16_ErrorIffReplyFailed ==
    \A c \in 1..callId :
        calls[c].outcome = "Reply" =>
            LET q == MainSends(c)
                replies == SelectSeq(q, LAMBDA a : a.op = "reply")
            IN /\ Len(replies) <= 1
               /\ Len(q) >= 1 => q[1].op = "reply"
               /\ \A i \in 1..Len(ErrorSends(c)) : IsErrorSend(ErrorSends(c)[i], c, SerFailed)
               /\ ErrorSends(c) # <<>> => (Len(replies) = 1 /\ ~replies[1].ok)
               /\ Completed(c) =>
                    /\ Len(replies) = 1
                    /\ (Len(ErrorSends(c)) = 1) <=> ~replies[1].ok

C16_Witness ==
    \E c \in 1..callId :
        /\ Completed(c)
        /\ calls[c].outcome = "Reply"
        /\ calls[c].t = SmallResp
        /\ Len(MainSends(c)) = 2
        /\ MainSends(c)[1].op = "reply" /\ ~MainSends(c)[1].ok
        /\ MainSends(c)[2].val = SerFailed

\* request c is answered by the dispatcher itself: by a reply of an inline
\* handler or by an error frame
SelfAnswered(c) == calls[c].outcome # "SpawnSuccess"

InSpawnedEndpointCall ==
    /\ pc # "idle"
    /\ \E i \in Bound(hdr.key) : registry[i].flavor = "spawn"

\* the main path waits for the sender's mutex, which a task owns
WaitsForTask == pc = "error" /\ lock[1] = TASK

\* C12 as stated: with the main path alone fair, every dispatch of a spawned
\* endpoint eventually returns.
C12_EveryDispatchReturns == InSpawnedEndpointCall ~> (pc = "idle")

\* C12, amended: with the main path alone fair, a dispatch of a spawned endpoint
\* whose submission succeeded eventually returns, with nothing assumed about its
\* task, and the next frame can be dispatched while the task still runs; any
\* other dispatch of a spawned endpoint returns unless it has to wait for the
\* sender's mutex, held by a task, to report its error.
C12_SpawnDoesNotWait ==
    /\ (pc # "idle" /\ resp = SpawnSuccess) ~> (pc = "idle")
    /\ InSpawnedEndpointCall ~> (pc = "idle" \/ WaitsForTask)

C12_Witness ==
    /\ callId = 2
    /\ pc = "arm"
    /\ Completed(1)
    /\ calls[1].outcome = "SpawnSuccess"
    /\ \E t \in tasks : t.call = 1 /\ t.st = "run"

\* the transport did not fail during call c: whatever the dispatcher managed to
\* encode was sent
TransportOk(c) ==
    \A i \in 1..Len(MainSends(c)) :
        Fits(Encode(MainSends(c)[i].op, MainSends(c)[i].val)) => MainSends(c)[i].ok

\* the frames sent for request c, by anyone
FramesFor(c) == SelectSeq(sends, LAMBDA a : a.call = c /\ a.ok)

\* C18: when the awaited handler terminates and sends complete, every dispatch
\* call eventually returns; a call that was not a successful spawn has made a send
\* attempt by then, and if the transport did not fail exactly one frame has been
\* sent for the request, by the dispatcher and with the request's seq_no. Only
\* successfully spawned requests leave dispatch without a frame attempted.
C18_ReturnsWithOneFrame ==
    /\ (pc # "idle") ~> (pc = "idle")
    /\ [](\A c \in 1..callId :
            Completed(c) =>
               /\ MainSends(c) = <<>> <=> calls[c].outcome = "SpawnSuccess"
               /\ (calls[c].outcome # "SpawnSuccess" /\ TransportOk(c)) =>
                     /\ Len(FramesFor(c)) = 1
                     /\ FramesFor(c)[1].by = MAIN
                     /\ FramesFor(c)[1].seq_no = calls[c].hdr.seq_no
                     /\ wire[FramesFor(c)[1].w].seq_no = calls[c].hdr.seq_no)

C18_Witness ==
    /\ callId = 2
    /\ Completed(2)
    /\ calls[1].outcome = "SpawnSuccess"
    /\ FramesFor(1) = <<>>
    /\ \E t \in tasks : t.call = 1
    /\ calls[2].hdr.key = KeyB
    /\ calls[2].outcome = "Reply"
    /\ TransportOk(2)
    /\ Len(FramesFor(2)) = 1

=============================================================================
